---------------------------- MODULE Spec2Model ----------------------------
(***************************************************************************)
(* State-machine model of src/pyTetris.py: the Tetromino and Tetris        *)
(* classes and the command dispatch of main().                             *)
(*                                                                         *)
(* The code refers to the board size only through the names ROWS and       *)
(* COLUMNS, so the model is checked on a smaller board.  The bounds are    *)
(* ROWS, COLUMNS, the number of piece kinds in play (the first NumKinds of *)
(* SHAPES), the number of pieces locked in one run of play (MaxLocks), the *)
(* score at which update_score is no longer called on its own (MaxScore),  *)
(* the rows above the grid a piece may be constructed on (MaxAbove), and,  *)
(* for the frames of main(): the frame time (FrameMs), the frame times a   *)
(* slow frame may take (SlowFrames), the clock reading after which no      *)
(* frame starts (MaxTime) and the ms by which a new game may read the      *)
(* clock after its frame did (MaxLate).                                    *)
(*                                                                         *)
(* Grid rows and columns are 0-based in the code and 1-based in the        *)
(* sequences below: Cell(grid, y, x) reads grid[y][x] of the code.  In     *)
(* Spec the automatic fall may come at any time; LoopSpec runs the frames  *)
(* of main() with their clock.  Drawing is left out.                       *)
(***************************************************************************)
EXTENDS Integers, Sequences, FiniteSets, TLC

\* ---------------------------------------------------------------- bounds
ROWS == 4

COLUMNS == 5

NumKinds == 2

MaxLocks == 2

MaxScore == 12000

MaxAbove == 1

FrameMs == 500

SlowFrames == 2

MaxLate == 1

MaxTime == 3000

\* ------------------------------------------------------ program constants
CYAN == 65535

BLUE == 255

ORANGE == 16753920

YELLOW == 16776960

GREEN == 65280

PURPLE == 8388736

RED == 16711680

KindOrder == <<"I", "O", "T", "L", "J", "S", "Z">>

Kinds == {KindOrder[i] : i \in 1..(IF NumKinds < 7 THEN NumKinds ELSE 7)}

\* list(SHAPES.keys()): the seven kinds of the shape table.
AllKinds == {KindOrder[i] : i \in 1..Len(KindOrder)}

SHAPES(shape) ==
    CASE shape = "I" -> <<<<1, 1, 1, 1>>>>
      [] shape = "O" -> <<<<1, 1>>, <<1, 1>>>>
      [] shape = "T" -> <<<<0, 1, 0>>, <<1, 1, 1>>>>
      [] shape = "L" -> <<<<0, 0, 1>>, <<1, 1, 1>>>>
      [] shape = "J" -> <<<<1, 0, 0>>, <<1, 1, 1>>>>
      [] shape = "S" -> <<<<0, 1, 1>>, <<1, 1, 0>>>>
      [] shape = "Z" -> <<<<1, 1, 0>>, <<0, 1, 1>>>>

\* Colours are the RGB triples of the code packed as r*65536 + g*256 + b; every
\* piece colour is a non-empty tuple in the code (truthy) and non-zero here.
COLORS(shape) ==
    CASE shape = "I" -> CYAN
      [] shape = "O" -> YELLOW
      [] shape = "T" -> PURPLE
      [] shape = "L" -> ORANGE
      [] shape = "J" -> BLUE
      [] shape = "S" -> GREEN
      [] shape = "Z" -> RED

\* ------------------------------------------------------------- Tetromino
\* Mutant: the result gets as many rows as the input has rows, not columns.
rotate_matrix_square(shape) ==
    [x \in 1..Len(shape) |->
        [j \in 1..Len(shape) |-> shape[Len(shape) + 1 - j][x]]]

\* Row x of the result is column x of the input read from the last row up.
rotate_matrix(shape) ==
    [x \in 1..Len(shape[1]) |->
        [j \in 1..Len(shape) |-> shape[Len(shape) + 1 - j][x]]]

get_rotations(shape) ==
    LET r1 == rotate_matrix(shape)
        r2 == rotate_matrix(r1)
        r3 == rotate_matrix(r2)
    IN  <<shape, r1, r2, r3>>

\* self.shapes of a piece of each kind: the four rotation states, computed once
\* at construction and never changed.
ROTATIONS == [shape \in AllKinds |-> get_rotations(SHAPES(shape))]

shapes(piece) == ROTATIONS[piece.shape]

Tetromino(x, y, shape) ==
    [x |-> x, y |-> y, shape |-> shape, color |-> COLORS(shape), rotation |-> 0,
     current_shape |-> ROTATIONS[shape][1]]

piece_rotate(piece) ==
    LET r == (piece.rotation + 1) % Len(shapes(piece))
    IN  [piece EXCEPT !.rotation = r, !.current_shape = shapes(piece)[r + 1]]

\* ---------------------------------------------------------------- Tetris
EmptyRow == [c \in 1..COLUMNS |-> 0]

EmptyGrid == [r \in 1..ROWS |-> EmptyRow]

\* seq[i] of the code: 0-based, a negative index counts from the end.
Index(seq, i) == IF i < 0 THEN seq[Len(seq) + i + 1] ELSE seq[i + 1]

Cell(grid, y, x) == Index(Index(grid, y), x)

new_piece(shape) == Tetromino((COLUMNS \div 2) - 2, 0, shape)

\* Mutant: the row is not tested for being on the grid before the cell is read.
valid_move_no_top(grid, piece, x, y) ==
    \A row \in 0..(Len(piece.current_shape) - 1) :
        \A col \in 0..(Len(piece.current_shape[row + 1]) - 1) :
            piece.current_shape[row + 1][col + 1] # 0 =>
                LET new_x == piece.x + x + col
                    new_y == piece.y + y + row
                IN  ~(\/ new_x < 0
                      \/ new_x >= COLUMNS
                      \/ new_y >= ROWS
                      \/ Cell(grid, new_y, new_x) # 0)

\* Mutant: the left wall is not tested (a negative column index counts from the
\* right end of the row).
valid_move_no_left(grid, piece, x, y) ==
    \A row \in 0..(Len(piece.current_shape) - 1) :
        \A col \in 0..(Len(piece.current_shape[row + 1]) - 1) :
            piece.current_shape[row + 1][col + 1] # 0 =>
                LET new_x == piece.x + x + col
                    new_y == piece.y + y + row
                IN  ~(\/ new_x >= COLUMNS
                      \/ new_y >= ROWS
                      \/ (new_y >= 0 /\ Cell(grid, new_y, new_x) # 0))

valid_move(grid, piece, x, y) ==
    \A row \in 0..(Len(piece.current_shape) - 1) :
        \A col \in 0..(Len(piece.current_shape[row + 1]) - 1) :
            piece.current_shape[row + 1][col + 1] # 0 =>
                LET new_x == piece.x + x + col
                    new_y == piece.y + y + row
                IN  ~(\/ new_x < 0
                      \/ new_x >= COLUMNS
                      \/ new_y >= ROWS
                      \/ (new_y >= 0 /\ Cell(grid, new_y, new_x) # 0))

\* all(self.grid[row])
all(row) == \A c \in 1..Len(row) : row[c] # 0

\* Mutant: the empty row is appended at the bottom.
delete_append(grid, row) ==
    SubSeq(grid, 1, row) \o SubSeq(grid, row + 2, Len(grid)) \o <<EmptyRow>>

\* del self.grid[row]; self.grid.insert(0, empty row)
delete_insert(grid, row) ==
    <<EmptyRow>> \o SubSeq(grid, 1, row) \o SubSeq(grid, row + 2, Len(grid))

\* Mutant: the loop stops one row short of the last row.
RECURSIVE clear_loop_short(_, _, _)
clear_loop_short(grid, row, lines_cleared) ==
    IF row >= ROWS - 1 THEN [grid |-> grid, lines_cleared |-> lines_cleared]
    ELSE IF all(grid[row + 1])
         THEN clear_loop_short(delete_insert(grid, row), row + 1,
                               lines_cleared + 1)
         ELSE clear_loop_short(grid, row + 1, lines_cleared)

\* Mutant: the counter is raised for every row the loop visits.
RECURSIVE clear_loop_count_all(_, _, _)
clear_loop_count_all(grid, row, lines_cleared) ==
    IF row >= ROWS THEN [grid |-> grid, lines_cleared |-> lines_cleared]
    ELSE IF all(grid[row + 1])
         THEN clear_loop_count_all(delete_insert(grid, row), row + 1,
                                   lines_cleared + 1)
         ELSE clear_loop_count_all(grid, row + 1, lines_cleared + 1)

RECURSIVE clear_loop(_, _, _)
clear_loop(grid, row, lines_cleared) ==
    IF row >= ROWS THEN [grid |-> grid, lines_cleared |-> lines_cleared]
    ELSE IF all(grid[row + 1])
         THEN clear_loop(delete_insert(grid, row), row + 1, lines_cleared + 1)
         ELSE clear_loop(grid, row + 1, lines_cleared)

clear_lines(grid) == clear_loop(grid, 0, 0)

line_scores == [n \in 0..4 |-> CASE n = 0 -> 0 [] n = 1 -> 100 [] n = 2 -> 300
                                 [] n = 3 -> 500 [] n = 4 -> 800]

Max(a, b) == IF a > b THEN a ELSE b

\* Mutant: the level is raised to score div 1000 at once.
update_score_jump(g, lines) ==
    LET s == g.score + line_scores[lines] * g.level
    IN  IF s \div 1000 > g.level
        THEN [g EXCEPT !.score = s, !.level = s \div 1000,
                       !.fall_speed = Max(100, 1000 - ((s \div 1000) * 100))]
        ELSE [g EXCEPT !.score = s]

\* Mutant: the points are not multiplied by the level.
update_score_flat(g, lines) ==
    LET s == g.score + line_scores[lines]
    IN  IF s \div 1000 > g.level
        THEN [g EXCEPT !.score = s, !.level = g.level + 1,
                       !.fall_speed = Max(100, 1000 - ((g.level + 1) * 100))]
        ELSE [g EXCEPT !.score = s]

\* Mutant: the points are taken off the score.
update_score_penalty(g, lines) ==
    LET s == g.score - line_scores[lines] * g.level
    IN  IF s \div 1000 > g.level
        THEN [g EXCEPT !.score = s, !.level = g.level + 1,
                       !.fall_speed = Max(100, 1000 - ((g.level + 1) * 100))]
        ELSE [g EXCEPT !.score = s]

\* Mutant: the new fall speed is not capped at 100.
update_score_no_floor(g, lines) ==
    LET s == g.score + line_scores[lines] * g.level
    IN  IF s \div 1000 > g.level
        THEN [g EXCEPT !.score = s, !.level = g.level + 1,
                       !.fall_speed = 1000 - ((g.level + 1) * 100)]
        ELSE [g EXCEPT !.score = s]

\* Mutant: the level is raised as soon as score div 1000 reaches it.
update_score_early(g, lines) ==
    LET s == g.score + line_scores[lines] * g.level
    IN  IF s \div 1000 >= g.level
        THEN [g EXCEPT !.score = s, !.level = g.level + 1,
                       !.fall_speed = Max(100, 1000 - ((g.level + 1) * 100))]
        ELSE [g EXCEPT !.score = s]

\* g is the Tetris object: a record of its fields.
update_score(g, lines) ==
    LET s == g.score + line_scores[lines] * g.level
    IN  IF s \div 1000 > g.level
        THEN [g EXCEPT !.score = s, !.level = g.level + 1,
                       !.fall_speed = Max(100, 1000 - ((g.level + 1) * 100))]
        ELSE [g EXCEPT !.score = s]

\* The occupied cells of the piece in the order the nested loops visit them.
RECURSIVE occupied(_, _, _)
occupied(shape, row, col) ==
    IF row >= Len(shape) THEN <<>>
    ELSE IF col >= Len(shape[row + 1]) THEN occupied(shape, row + 1, 0)
    ELSE (IF shape[row + 1][col + 1] # 0 THEN <<<<row, col>>>> ELSE <<>>)
         \o occupied(shape, row, col + 1)

\* Mutant: a cell above the grid is skipped and the loop goes on; game_over is
\* set at the end.
RECURSIVE write_cells_skip(_, _, _, _)
write_cells_skip(grid, piece, cells, i) ==
    IF i > Len(cells)
    THEN [grid |-> grid,
          game_over |-> \E j \in 1..Len(cells) : piece.y + cells[j][1] < 0]
    ELSE LET y == piece.y + cells[i][1]
             x == piece.x + cells[i][2]
         IN  IF y < 0 THEN write_cells_skip(grid, piece, cells, i + 1)
             ELSE write_cells_skip([grid EXCEPT ![y + 1][x + 1] = piece.color],
                                   piece, cells, i + 1)

\* The write loop of lock_piece: stops at the first cell above the grid.
RECURSIVE write_cells(_, _, _, _)
write_cells(grid, piece, cells, i) ==
    IF i > Len(cells) THEN [grid |-> grid, game_over |-> FALSE]
    ELSE LET y == piece.y + cells[i][1]
             x == piece.x + cells[i][2]
         IN  IF y < 0 THEN [grid |-> grid, game_over |-> TRUE]
             ELSE write_cells([grid EXCEPT ![y + 1][x + 1] = piece.color],
                              piece, cells, i + 1)

\* Mutant: the lines are cleared and scored before the cells are written.
lock_piece_clear_first(g, shape) ==
    LET seen == [g EXCEPT !.lock_calls = g.lock_calls + 1,
                          !.locked = g.current_piece,
                          !.calls = Append(g.calls, "lock_piece")]
        c == clear_lines(g.grid)
        w == write_cells(c.grid, g.current_piece,
                         occupied(g.current_piece.current_shape, 0, 0), 1)
    IN  IF w.game_over
        THEN [seen EXCEPT !.grid = w.grid, !.game_over = TRUE]
        ELSE LET u == update_score([seen EXCEPT !.grid = w.grid,
                                                !.lines_cleared = c.lines_cleared],
                                   c.lines_cleared)
             IN  [u EXCEPT !.current_piece = g.next_piece,
                           !.next_piece = new_piece(shape),
                           !.calls = seen.calls \o
                               <<"clear_lines", "update_score", "new_piece">>]

\* shape: the kind random.choice draws for the new next_piece.
\* lock_calls, locked, lines_cleared and calls are observers of the current
\* command: the number of its lock_piece calls, the placement of the piece at
\* that call, the value its clear_lines call returned, and the methods of the
\* game it called, in the order of the calls.
lock_piece(g, shape) ==
    LET w == write_cells(g.grid, g.current_piece,
                         occupied(g.current_piece.current_shape, 0, 0), 1)
        seen == [g EXCEPT !.lock_calls = g.lock_calls + 1,
                          !.locked = g.current_piece,
                          !.calls = Append(g.calls, "lock_piece")]
    IN  IF w.game_over
        THEN [seen EXCEPT !.grid = w.grid, !.game_over = TRUE]
        ELSE LET c == clear_lines(w.grid)
                 u == update_score([seen EXCEPT !.grid = c.grid,
                                                !.lines_cleared = c.lines_cleared],
                                   c.lines_cleared)
             IN  [u EXCEPT !.current_piece = g.next_piece,
                           !.next_piece = new_piece(shape),
                           !.calls = seen.calls \o
                               <<"clear_lines", "update_score", "new_piece">>]

move_down(g, shape) ==
    IF valid_move(g.grid, g.current_piece, 0, 1)
    THEN [g EXCEPT !.current_piece.y = g.current_piece.y + 1]
    ELSE lock_piece(g, shape)

\* Mutant: an if in place of the while.
drop_once(g) ==
    IF valid_move(g.grid, g.current_piece, 0, 1)
    THEN [g EXCEPT !.current_piece.y = g.current_piece.y + 1]
    ELSE g

RECURSIVE drop_loop(_)
drop_loop(g) ==
    IF valid_move(g.grid, g.current_piece, 0, 1)
    THEN drop_loop([g EXCEPT !.current_piece.y = g.current_piece.y + 1])
    ELSE g

\* dropped is an observer: the rows the loop moved the piece.
hard_drop(g, shape) ==
    LET d == drop_loop(g)
    IN  lock_piece([d EXCEPT !.dropped = d.current_piece.y - g.current_piece.y],
                   shape)

\* Mutant: the move is made without asking valid_move.
move_horizontal_unchecked(g, dx) ==
    [g EXCEPT !.current_piece.x = g.current_piece.x + dx]

move_horizontal(g, dx) ==
    IF valid_move(g.grid, g.current_piece, dx, 0)
    THEN [g EXCEPT !.current_piece.x = g.current_piece.x + dx]
    ELSE g

\* Mutant: a colliding rotation is not reverted.
rotate_no_revert(g) == [g EXCEPT !.current_piece = piece_rotate(g.current_piece)]

rotate(g) ==
    LET original_rotation == g.current_piece.rotation
        turned == piece_rotate(g.current_piece)
    IN  IF ~valid_move(g.grid, turned, 0, 0)
        THEN [g EXCEPT !.current_piece =
                 [turned EXCEPT !.rotation = original_rotation,
                                !.current_shape = shapes(turned)[original_rotation + 1]]]
        ELSE [g EXCEPT !.current_piece = turned]

\* ----------------------------------------------------------------- state
\* The fields of the Tetris object, the observers lock_calls, locked,
\* lines_cleared, dropped and calls, and pieces, the number of lock_piece calls
\* of the run so far (counted up to MaxLocks).
\* The frame clock of main(): current_time is the local of that name, last_fall
\* the field game.last_fall, pc the position in the loop body ("clock": about to
\* read the clock, "events": in the event loop, "fall": at the automatic fall;
\* "none" where main() is not running), and drop_times an observer, the
\* current_time of each automatic drop of the game so far, in order.
VARIABLES grid, current_piece, next_piece, score, level, fall_speed, game_over,
          lock_calls, locked, lines_cleared, dropped, calls, pieces,
          current_time, last_fall, pc, drop_times

vars == <<grid, current_piece, next_piece, score, level, fall_speed, game_over,
          lock_calls, locked, lines_cleared, dropped, calls, pieces,
          current_time, last_fall, pc, drop_times>>

Clock == <<current_time, last_fall, pc, drop_times>>

\* The methods of the class are called without main(): no frame clock runs.
NoClock == current_time = 0 /\ last_fall = 0 /\ pc = "none" /\ drop_times = <<>>

NoPiece == [x |-> 0, y |-> 0, shape |-> "none", color |-> 0, rotation |-> 0,
            current_shape |-> <<>>]

\* Tetris.__init__ with the two kinds random.choice draws.
Tetris(shape1, shape2) ==
    [grid |-> EmptyGrid, current_piece |-> new_piece(shape1),
     next_piece |-> new_piece(shape2), score |-> 0, level |-> 1,
     fall_speed |-> 1000, game_over |-> FALSE,
     lock_calls |-> 0, locked |-> NoPiece, lines_cleared |-> 0, dropped |-> 0,
     calls |-> <<>>]

\* The game object as it stands when a command starts.
Game ==
    [grid |-> grid, current_piece |-> current_piece, next_piece |-> next_piece,
     score |-> score, level |-> level, fall_speed |-> fall_speed,
     game_over |-> game_over, lock_calls |-> 0, locked |-> NoPiece,
     lines_cleared |-> 0, dropped |-> 0, calls |-> <<>>]

\* The fields of the object after a command; h is g, evaluated once.
Fields(g) ==
    \E h \in {g} :
        /\ grid' = h.grid
        /\ current_piece' = h.current_piece
        /\ next_piece' = h.next_piece
        /\ score' = h.score
        /\ level' = h.level
        /\ fall_speed' = h.fall_speed
        /\ game_over' = h.game_over
        /\ lock_calls' = h.lock_calls
        /\ locked' = h.locked
        /\ lines_cleared' = h.lines_cleared
        /\ dropped' = h.dropped
        /\ calls' = h.calls
        /\ pieces' = IF pieces + h.lock_calls > MaxLocks THEN MaxLocks
                     ELSE pieces + h.lock_calls

\* A command called outside the frame loop.
Becomes(g) == Fields(g) /\ UNCHANGED Clock

Init ==
    \E s1 \in Kinds, s2 \in Kinds :
        LET g == Tetris(s1, s2)
        IN  /\ grid = g.grid
            /\ current_piece = g.current_piece
            /\ next_piece = g.next_piece
            /\ score = g.score
            /\ level = g.level
            /\ fall_speed = g.fall_speed
            /\ game_over = g.game_over
            /\ lock_calls = 0
            /\ locked = NoPiece
            /\ lines_cleared = 0
            /\ dropped = 0
            /\ calls = <<>>
            /\ pieces = 0
            /\ NoClock

\* ------------------------------------------------------------------ main
\* The kinds random.choice may draw during move_down: new_piece is only called
\* when the piece locks.
Draws == IF valid_move(grid, current_piece, 0, 1) THEN {KindOrder[1]} ELSE Kinds

\* game = Tetris(): the reset a key press makes once game_over is set.
Reset == \E s1 \in Kinds, s2 \in Kinds : Becomes(Tetris(s1, s2))

\* One KEYDOWN event of the event loop, per key.
KeyLeft ==
    /\ pieces < MaxLocks
    /\ IF game_over THEN Reset ELSE Becomes(move_horizontal(Game, -1))

KeyRight ==
    /\ pieces < MaxLocks
    /\ IF game_over THEN Reset ELSE Becomes(move_horizontal(Game, 1))

KeyDown ==
    /\ pieces < MaxLocks
    /\ IF game_over THEN Reset
       ELSE \E shape \in Draws : Becomes(move_down(Game, shape))

KeyUp ==
    /\ pieces < MaxLocks
    /\ IF game_over THEN Reset ELSE Becomes(rotate(Game))

KeySpace ==
    /\ pieces < MaxLocks
    /\ IF game_over THEN Reset
       ELSE \E shape \in Kinds : Becomes(hard_drop(Game, shape))

\* The automatic fall of a frame whose timer has run out.
Fall ==
    /\ ~game_over
    /\ \E shape \in Draws : Becomes(move_down(Game, shape))

AutoFall ==
    /\ pieces < MaxLocks
    /\ Fall

Next == KeyLeft \/ KeyRight \/ KeyDown \/ KeyUp \/ KeySpace \/ AutoFall

Spec == Init /\ [][Next]_vars

\* A game nobody plays: no key is pressed and the main loop keeps running, so
\* the automatic fall fires again and again for as long as it is enabled.
FallSpec == Init /\ [][Fall]_vars /\ WF_vars(Fall)

\* ------------------------------------------------------- main, with clock
\* The loop of main() frame by frame.  pygame.time.get_ticks() is 0 when the
\* game is constructed; a frame reads the clock 1..SlowFrames frame times of
\* FrameMs ms after the frame before it (frames are read while the clock is
\* under MaxTime), finds at most one KEYDOWN event in the queue, and comes to
\* the automatic fall.
LoopInit ==
    \E s1 \in Kinds, s2 \in Kinds :
        LET g == Tetris(s1, s2)
        IN  /\ grid = g.grid
            /\ current_piece = g.current_piece
            /\ next_piece = g.next_piece
            /\ score = g.score
            /\ level = g.level
            /\ fall_speed = g.fall_speed
            /\ game_over = g.game_over
            /\ lock_calls = 0
            /\ locked = NoPiece
            /\ lines_cleared = 0
            /\ dropped = 0
            /\ calls = <<>>
            /\ pieces = 0
            /\ current_time = 0
            /\ last_fall = 0
            /\ pc = "clock"
            /\ drop_times = <<>>

\* current_time = pygame.time.get_ticks()
ReadClock ==
    /\ pc = "clock"
    /\ current_time < MaxTime
    /\ \E frames \in 1..SlowFrames :
          current_time' = current_time + (frames * FrameMs)
    /\ pc' = "events"
    /\ UNCHANGED <<grid, current_piece, next_piece, score, level, fall_speed,
                   game_over, lock_calls, locked, lines_cleared, dropped, calls,
                   pieces, last_fall, drop_times>>

\* game = Tetris() in the event loop: the new game reads the clock at the
\* frame's reading of it or up to MaxLate ms later.
LoopReset ==
    /\ \E s1 \in Kinds, s2 \in Kinds : Fields(Tetris(s1, s2))
    /\ \E late \in 0..MaxLate : last_fall' = current_time + late
    /\ drop_times' = <<>>

\* A command of the event loop leaves the clock fields alone.
LoopCommand(g) == Fields(g) /\ UNCHANGED <<last_fall, drop_times>>

LoopKeyLeft ==
    /\ pc = "events" /\ pc' = "fall" /\ UNCHANGED current_time
    /\ IF game_over THEN LoopReset ELSE LoopCommand(move_horizontal(Game, -1))

LoopKeyRight ==
    /\ pc = "events" /\ pc' = "fall" /\ UNCHANGED current_time
    /\ IF game_over THEN LoopReset ELSE LoopCommand(move_horizontal(Game, 1))

LoopKeyDown ==
    /\ pc = "events" /\ pc' = "fall" /\ UNCHANGED current_time
    /\ IF game_over THEN LoopReset
       ELSE \E shape \in Draws : LoopCommand(move_down(Game, shape))

LoopKeyUp ==
    /\ pc = "events" /\ pc' = "fall" /\ UNCHANGED current_time
    /\ IF game_over THEN LoopReset ELSE LoopCommand(rotate(Game))

LoopKeySpace ==
    /\ pc = "events" /\ pc' = "fall" /\ UNCHANGED current_time
    /\ IF game_over THEN LoopReset
       ELSE \E shape \in Kinds : LoopCommand(hard_drop(Game, shape))

\* The event queue holds no KEYDOWN event.
LoopNoKey ==
    /\ pc = "events" /\ pc' = "fall" /\ UNCHANGED current_time
    /\ LoopCommand(Game)

\* Mutant: the fall comes as soon as fall_speed ms have passed.
LoopFallEager ==
    /\ pc = "fall" /\ pc' = "clock" /\ UNCHANGED current_time
    /\ IF ~game_over /\ current_time - last_fall >= fall_speed
       THEN /\ \E shape \in Draws : Fields(move_down(Game, shape))
            /\ last_fall' = current_time
            /\ drop_times' = Append(drop_times, current_time)
       ELSE LoopCommand(Game)

\* Automatic Falling, and the end of the frame.
LoopFall ==
    /\ pc = "fall" /\ pc' = "clock" /\ UNCHANGED current_time
    /\ IF ~game_over /\ current_time - last_fall > fall_speed
       THEN /\ \E shape \in Draws : Fields(move_down(Game, shape))
            /\ last_fall' = current_time
            /\ drop_times' = Append(drop_times, current_time)
       ELSE LoopCommand(Game)

LoopNext ==
    \/ ReadClock
    \/ LoopKeyLeft \/ LoopKeyRight \/ LoopKeyDown \/ LoopKeyUp \/ LoopKeySpace
    \/ LoopNoKey
    \/ LoopFall

LoopSpec == LoopInit /\ [][LoopNext]_vars

\* The Tetris class driven directly: its methods carry no guard of their own, and
\* a caller may hold a game whose game_over flag is set or whose piece was
\* constructed up to MaxAbove rows above the grid.
MethodInit ==
    \E s1 \in Kinds, s2 \in Kinds, y0 \in (0 - MaxAbove)..0, over \in BOOLEAN :
        LET g == Tetris(s1, s2)
        IN  /\ grid = g.grid
            /\ current_piece = [g.current_piece EXCEPT !.y = y0]
            /\ next_piece = g.next_piece
            /\ score = g.score
            /\ level = g.level
            /\ fall_speed = g.fall_speed
            /\ game_over = over
            /\ lock_calls = 0
            /\ locked = NoPiece
            /\ lines_cleared = 0
            /\ dropped = 0
            /\ calls = <<>>
            /\ pieces = 0
            /\ NoClock

CallMoveLeft == pieces < MaxLocks /\ Becomes(move_horizontal(Game, -1))

CallMoveRight == pieces < MaxLocks /\ Becomes(move_horizontal(Game, 1))

CallMoveDown ==
    pieces < MaxLocks /\ \E shape \in Draws : Becomes(move_down(Game, shape))

CallHardDrop ==
    pieces < MaxLocks /\ \E shape \in Kinds : Becomes(hard_drop(Game, shape))

CallRotate == pieces < MaxLocks /\ Becomes(rotate(Game))

MethodNext ==
    CallMoveLeft \/ CallMoveRight \/ CallMoveDown \/ CallHardDrop \/ CallRotate

MethodSpec == MethodInit /\ [][MethodNext]_vars

\* The Tetromino class and lock_piece driven directly: a piece of any of the
\* seven kinds constructed inside the walls, on the top row or up to MaxAbove
\* rows above it, is turned by Tetromino.rotate (which tests nothing) and
\* locked.
PieceInit ==
    \E shape \in AllKinds, s2 \in Kinds,
       x0 \in 0..(COLUMNS - 4), y0 \in (0 - MaxAbove)..0 :
        LET g == Tetris(shape, s2)
        IN  /\ grid = g.grid
            /\ current_piece = Tetromino(x0, y0, shape)
            /\ next_piece = g.next_piece
            /\ score = g.score
            /\ level = g.level
            /\ fall_speed = g.fall_speed
            /\ game_over = g.game_over
            /\ lock_calls = 0
            /\ locked = NoPiece
            /\ lines_cleared = 0
            /\ dropped = 0
            /\ calls = <<>>
            /\ pieces = 0
            /\ NoClock

CallPieceRotate ==
    Becomes([Game EXCEPT !.current_piece = piece_rotate(current_piece)])

CallLockPiece ==
    pieces < MaxLocks /\ \E shape \in Kinds : Becomes(lock_piece(Game, shape))

PieceNext == CallPieceRotate \/ CallLockPiece

PieceSpec == PieceInit /\ [][PieceNext]_vars

\* clear_lines on its own, applied to boards built row by row from four kinds
\* of row: empty, complete, only the first cell filled, all but the last cell
\* filled.
RowKinds ==
    { EmptyRow,
      [c \in 1..COLUMNS |-> IF c % 2 = 0 THEN CYAN ELSE YELLOW],
      [c \in 1..COLUMNS |-> IF c = 1 THEN YELLOW ELSE 0],
      [c \in 1..COLUMNS |-> IF c < COLUMNS THEN CYAN ELSE 0] }

ClearInit ==
    \E board \in [1..ROWS -> RowKinds] :
        LET g == Tetris(KindOrder[1], KindOrder[1])
        IN  /\ grid = board
            /\ current_piece = g.current_piece
            /\ next_piece = g.next_piece
            /\ score = g.score
            /\ level = g.level
            /\ fall_speed = g.fall_speed
            /\ game_over = g.game_over
            /\ lock_calls = 0
            /\ locked = NoPiece
            /\ lines_cleared = 0
            /\ dropped = 0
            /\ calls = <<>>
            /\ pieces = 0
            /\ NoClock

CallClearLines ==
    LET c == clear_lines(grid)
    IN  Becomes([Game EXCEPT !.grid = c.grid, !.lines_cleared = c.lines_cleared])

ClearSpec == ClearInit /\ [][CallClearLines]_vars

\* update_score on its own, from a new game: lock_piece passes it the number of
\* lines one piece cleared, 0 to 4.  lines_cleared holds that argument.
CallUpdateScore ==
    /\ score < MaxScore
    /\ \E lines \in 0..4 :
          Becomes(update_score([Game EXCEPT !.lines_cleared = lines], lines))

ScoreSpec == Init /\ [][CallUpdateScore]_vars

\* ---------------------------------------------------------------- claims
\* The absolute (x, y) of the occupied cells of a piece.
PieceCells(piece) ==
    LET sh == piece.current_shape
    IN  {<<piece.x + rc[2] - 1, piece.y + rc[1] - 1>> :
            rc \in {p \in (1..Len(sh)) \X (1..Len(sh[1])) : sh[p[1]][p[2]] = 1}}

Filled(g, x, y) ==
    /\ x \in 0..(COLUMNS - 1)
    /\ y \in 0..(ROWS - 1)
    /\ g[y + 1][x + 1] # 0

\* C1: while game_over is false, every occupied cell of current_piece lies in
\* columns 0..COLUMNS-1 and, when its row is >= 0, on an empty grid cell.
C1_PieceClearOfStack ==
    ~game_over =>
        \A c \in PieceCells(current_piece) :
            /\ c[1] \in 0..(COLUMNS - 1)
            /\ (c[2] >= 0 => ~Filled(grid, c[1], c[2]))

\* C2: game over is reached: with the stack growing under the spawn rows (no key
\* pressed, automatic falls only), game_over eventually becomes true.
C2_GameOverReached == <>game_over

\* The piece lies inside the walls and above the floor, on empty cells.
Fits(g, piece) ==
    \A c \in PieceCells(piece) :
        /\ c[1] \in 0..(COLUMNS - 1)
        /\ c[2] < ROWS
        /\ ~Filled(g, c[1], c[2])

AtRow(piece, y) == [piece EXCEPT !.y = y]

Height(piece) == Len(piece.current_shape)

\* No command of main() ever sets game_over.
NeverGameOver == ~game_over

Complete(row) == \A c \in DOMAIN row : row[c] # 0

Incomplete(row) == ~Complete(row)

\* C3: clear_lines returns the number k of rows that were complete before the
\* call and leaves k empty rows on top of the rows that were not complete, in
\* their order; the grid keeps ROWS rows of COLUMNS cells.
C3_ClearLines ==
    [][CallClearLines =>
        LET k == Cardinality({r \in 1..ROWS : Complete(grid[r])})
        IN  /\ lines_cleared' = k
            /\ grid' = [r \in 1..k |-> EmptyRow] \o SelectSeq(grid, Incomplete)
            /\ Len(grid') = ROWS
            /\ \A r \in 1..ROWS : Len(grid'[r]) = COLUMNS]_vars

\* Two rows were cleared and rows that were not complete remain below.
C3_Witness ==
    /\ lines_cleared = 2
    /\ grid[1] = EmptyRow /\ grid[2] = EmptyRow
    /\ grid[ROWS - 1] # EmptyRow /\ grid[ROWS] # EmptyRow
    /\ grid[ROWS - 1] # grid[ROWS]

\* C6: one update_score call raises the level by one when score' div 1000
\* exceeds the level before the call, and leaves it otherwise.
C6_OneLevelPerCall ==
    [][CallUpdateScore =>
        level' = IF score' \div 1000 > level THEN level + 1 ELSE level]_vars

\* The level was raised and the score is still more than one level ahead.
C6_Witness == level >= 2 /\ score \div 1000 > level

BasePoints(lines) ==
    CASE lines = 0 -> 0 [] lines = 1 -> 100 [] lines = 2 -> 300
      [] lines = 3 -> 500 [] lines = 4 -> 800

\* C7: update_score(lines) adds BasePoints(lines) times the level before the
\* call to the score.
C7_PointsAdded ==
    [][CallUpdateScore => score' = score + BasePoints(lines_cleared') * level]_vars

\* One line at level 2 added 200 points to 2700.
C7_Witness == score = 2900 /\ level = 2 /\ lines_cleared = 1

\* C4: in every reachable state hard_drop ends, calls lock_piece once, and locks
\* the piece in its column and rotation on the lowest row it can fall to: every
\* row it passed fits, the row below the last does not.
\* (The kind drawn for the new next_piece has no part in it: one draw is taken.)
C4_HardDropLowest ==
    \E h \in {hard_drop(Game, KindOrder[1])} :
        /\ h.lock_calls = 1
        /\ h.locked.x = current_piece.x
        /\ h.locked.rotation = current_piece.rotation
        /\ h.locked.current_shape = current_piece.current_shape
        /\ h.locked.y >= current_piece.y
        /\ \A y \in (current_piece.y + 1)..h.locked.y :
              Fits(grid, AtRow(current_piece, y))
        /\ ~Fits(grid, AtRow(current_piece, h.locked.y + 1))

\* A hard drop moved the piece down and locked it on the stack, above the floor.
C4_Witness ==
    /\ lock_calls = 1
    /\ dropped >= 1
    /\ locked.y + Height(locked) < ROWS

Turned(piece) ==
    LET r == (piece.rotation + 1) % 4
    IN  [piece EXCEPT !.rotation = r,
                      !.current_shape = ROTATIONS[piece.shape][r + 1]]

\* C5: rotate either advances the rotation by one (mod 4) to a placement that
\* fits at the same (x, y), or, the turned piece not fitting there, leaves
\* rotation and current_shape as they were; nothing else changes.
C5_RotateInPlace ==
    \E h \in {rotate(Game)}, t \in {Turned(current_piece)} :
        /\ \/ h.current_piece = t /\ Fits(grid, t)
           \/ /\ ~Fits(grid, t)
              /\ h.current_piece.rotation = current_piece.rotation
              /\ h.current_piece.current_shape = current_piece.current_shape
        /\ h.current_piece.x = current_piece.x
        /\ h.current_piece.y = current_piece.y
        /\ h.grid = grid /\ h.score = score /\ h.level = level
        /\ h.next_piece = next_piece

\* A piece that was turned once stands where a further turn does not fit.
C5_Witness ==
    /\ current_piece.rotation = 1
    /\ Fits(grid, current_piece)
    /\ ~Fits(grid, Turned(current_piece))

\* The deltas the commands pass to valid_move are -1, 0 and 1 columns and 0 and
\* 1 rows; -1 rows puts a piece of the top row above the grid.
Deltas == {-1, 0, 1}

Shifted(piece, dx) == [piece EXCEPT !.x = piece.x + dx]

\* C9: move_horizontal(dx), dx -1 or 1, moves the piece by dx when the shifted
\* placement is valid and changes nothing of the game otherwise.
C9_MoveHorizontal ==
    \A dx \in {-1, 1} :
        \E h \in {move_horizontal(Game, dx)} :
            IF Fits(grid, Shifted(current_piece, dx))
            THEN h = [Game EXCEPT !.current_piece = Shifted(current_piece, dx)]
            ELSE h = Game

\* A piece that was moved right stands against the stack: the next move right
\* stays inside the walls and is rejected.
C9_Witness ==
    /\ current_piece.x > (COLUMNS \div 2) - 2
    /\ \A c \in PieceCells(current_piece) : c[1] + 1 < COLUMNS
    /\ Fits(grid, current_piece)
    /\ ~Fits(grid, Shifted(current_piece, 1))

C11_ScoreMonotone ==
    [][score >= 0 /\ score' >= 0 /\ (~game_over => score' >= score)]_vars

\* A piece was locked, cleared a line and raised the score.
C11_Witness == lock_calls = 1 /\ lines_cleared >= 1 /\ score > 0

\* C12: fall_speed is at least 100 in every state, no step raises it, and a
\* step that raises the level does not raise it.
C12_FallSpeed ==
    [][/\ fall_speed >= 100
       /\ fall_speed' >= 100
       /\ fall_speed' <= fall_speed
       /\ (level' > level => fall_speed' <= fall_speed)]_vars

\* The level is past the one where 1000 - level * 100 drops under 100, and the
\* fall speed stands at the floor.
C12_Witness == fall_speed = 100 /\ 1000 - (level * 100) < 100

\* C20: level >= 1, and level = 1 or level <= score div 1000.
C20_LevelBehindScore == level >= 1 /\ (level = 1 \/ level <= score \div 1000)

\* Level 2 was reached with the score at 2000 or more, and a later level stands
\* exactly at score div 1000.
C20_Witness == level >= 3 /\ level = score \div 1000

\* The number of occupied cells of a rotation state.
CellCount(shape) ==
    Cardinality({p \in (1..Len(shape)) \X (1..Len(shape[1])) :
                    shape[p[1]][p[2]] # 0})

\* C13: for the kind of the piece (any of the seven), four applications of
\* rotate_matrix to its base matrix give the base matrix again, each of its four
\* precomputed rotation states has exactly 4 occupied cells, and the piece
\* shows the state its rotation index names.
C13_RotationClosure ==
    \E base \in {SHAPES(current_piece.shape)} :
        /\ rotate_matrix(rotate_matrix(rotate_matrix(rotate_matrix(base)))) = base
        /\ Len(shapes(current_piece)) = 4
        /\ \A i \in 1..4 : CellCount(shapes(current_piece)[i]) = 4
        /\ current_piece.current_shape =
              shapes(current_piece)[current_piece.rotation + 1]

\* An L piece turned three times: it differs from the base matrix, and one more
\* application of rotate_matrix gives the base matrix.
C13_Witness ==
    /\ current_piece.shape = "L"
    /\ current_piece.rotation = 3
    /\ current_piece.current_shape # SHAPES("L")
    /\ rotate_matrix(current_piece.current_shape) = SHAPES("L")

\* C18: a lock_piece call on a piece with an occupied cell above the grid sets
\* game_over, calls neither clear_lines nor update_score, and leaves the grid,
\* both pieces, score, level and fall_speed as they were.
C18_LockAboveGrid ==
    [][(lock_calls' = 1 /\ \E c \in PieceCells(current_piece) : c[2] < 0) =>
          /\ game_over'
          /\ calls' = <<"lock_piece">>
          /\ UNCHANGED <<grid, current_piece, next_piece, score, level,
                         fall_speed>>]_vars

\* A turned piece with cells above the grid and cells on it was locked: the game
\* is over and the grid is still empty.
C18_Witness ==
    /\ game_over
    /\ lock_calls = 1
    /\ locked.rotation = 1
    /\ \E c \in PieceCells(locked) : c[2] < 0
    /\ \E c \in PieceCells(locked) : c[2] >= 0
    /\ grid = EmptyGrid

\* C14: between commands no row of the grid is complete.
C14_NoFullRow == \A r \in 1..ROWS : Incomplete(grid[r])

\* A lock cleared a line and the rows above it moved down: the last row holds
\* what stood over the cleared row.
C14_Witness ==
    /\ lock_calls = 1
    /\ lines_cleared = 1
    /\ grid[ROWS] # EmptyRow
    /\ grid[1] = EmptyRow

\* The piece has an occupied cell at column x, row y of the grid.
Covers(piece, x, y) ==
    /\ y - piece.y \in 0..(Len(piece.current_shape) - 1)
    /\ x - piece.x \in 0..(Len(piece.current_shape[1]) - 1)
    /\ piece.current_shape[y - piece.y + 1][x - piece.x + 1] # 0

\* The grid with the cells of the piece written into it.
Written(g, piece) ==
    [r \in 1..ROWS |->
        [c \in 1..COLUMNS |->
            IF Covers(piece, c - 1, r - 1) THEN piece.color ELSE g[r][c]]]

AtSpawn(piece) == piece = new_piece(piece.shape)

\* C15: the preview piece stands as new_piece made it; and a lock_piece call on
\* a piece with no cell above the grid calls clear_lines, update_score and
\* new_piece in this order, leaves the grid as clear_lines makes it of the grid
\* with the cells written, adds the points of the rows completed by the write,
\* promotes the preview piece and spawns a new preview piece.
C15_LockOrder ==
    [][/\ AtSpawn(next_piece)
       /\ AtSpawn(next_piece') /\ next_piece'.shape \in Kinds
       /\ (lock_calls' = 1 /\ locked'.y >= 0) =>
             \E W \in {Written(grid, locked')} :
                 /\ calls' = <<"lock_piece", "clear_lines", "update_score",
                               "new_piece">>
                 /\ lines_cleared' = Cardinality({r \in 1..ROWS : Complete(W[r])})
                 /\ grid' = [r \in 1..lines_cleared' |-> EmptyRow]
                               \o SelectSeq(W, Incomplete)
                 /\ score' = score + BasePoints(lines_cleared') * level
                 /\ current_piece' = next_piece]_vars

\* A lock completed a row by its write: the row was cleared and scored, and the
\* preview piece, of another kind than the new preview, is the current piece.
C15_Witness ==
    /\ lock_calls = 1
    /\ lines_cleared = 1
    /\ score = 100
    /\ AtSpawn(current_piece)
    /\ current_piece.shape # next_piece.shape
    /\ ~game_over

InsideGrid(piece) ==
    \A row \in 1..Len(piece.current_shape) :
        \A col \in 1..Len(piece.current_shape[row]) :
            piece.current_shape[row][col] # 0 =>
                /\ piece.x + col - 1 >= 0
                /\ piece.x + col - 1 < COLUMNS
                /\ piece.y + row - 1 >= 0
                /\ piece.y + row - 1 < ROWS

\* C17: every occupied cell of current_piece is inside the grid, its y is not
\* negative, and the piece lock_piece wrote was inside the grid.
C17_PieceInsideGrid ==
    /\ InsideGrid(current_piece)
    /\ current_piece.y >= 0
    /\ lock_calls = 1 => InsideGrid(locked)

\* A turned piece stands in the corner of the last row and the last column.
C17_Witness ==
    /\ current_piece.rotation = 1
    /\ \E c \in PieceCells(current_piece) :
          c[1] = COLUMNS - 1 /\ c[2] = ROWS - 1

\* The fall step of the frame is due.
Due == ~game_over /\ current_time - last_fall > fall_speed

\* move_down ran in the step: it moved the piece one row or called lock_piece.
MovedDown ==
    \/ lock_calls' = 1
    \/ current_piece' = [current_piece EXCEPT !.y = current_piece.y + 1]

\* C19: at the automatic fall of a frame move_down runs if and only if game_over
\* is false and current_time - last_fall > fall_speed; the frame sets last_fall
\* to current_time exactly then; an automatic drop is more than fall_speed
\* after the one before it; and no other step of a game touches last_fall.
C19_AutoDrop ==
    [][/\ pc = "fall" =>
             /\ MovedDown <=> Due
             /\ last_fall' = IF Due THEN current_time ELSE last_fall
             /\ game_over => ~MovedDown
             /\ (MovedDown /\ drop_times # <<>>) =>
                    current_time - drop_times[Len(drop_times)] > fall_speed
       /\ (pc # "fall" /\ ~game_over) => last_fall' = last_fall]_vars

\* Two automatic drops of one game, the second one frame time more than
\* fall_speed ms after the first.
C19_Witness ==
    /\ Len(drop_times) = 2
    /\ drop_times[2] - drop_times[1] = fall_speed + FrameMs
    /\ last_fall = drop_times[2]
    /\ pc = "clock"

====
